---- MODULE Spec2Model ----
(***************************************************************************)
(* Model of the compiled-function evaluator of heyoka.py                   *)
(* (src/heyoka/cfunc.cpp, expose_add_cfunc_impl): the evaluation lambda    *)
(* returned by the factory, its argument validation, the zero-copy         *)
(* decision, and the four dispatch paths (single/batch x zero-copy/        *)
(* buffered) over the scratch buffers buf_in, buf_out, buf_pars, buf_time. *)
(*                                                                         *)
(* Element values are symbolic terms (sequences of naturals): every        *)
(* caller cell holds an atom naming the role, row and logical point it     *)
(* belongs to, and a kernel output is the term built from the output row   *)
(* and every value the kernel read.  Any misplaced gather, scatter or      *)
(* pointer offset therefore changes the term that ends up in an output.    *)
(***************************************************************************)
EXTENDS Integers, Sequences, FiniteSets, TLC

(***************************************************************************)
(* Bounds of the model.                                                    *)
(***************************************************************************)
MaxVars == 2    \* nvars is 0 or MaxVars
MaxOuts == 2    \* nouts is MaxOuts
MaxPars == 1    \* nparams is 0 or MaxPars
MaxW    == 2    \* simd_size ranges over 1..MaxW
MaxN    == 3    \* nevals (second dimension) ranges over 0..MaxN
MaxPrec == 2    \* the working precision of mppp::real; others are below it

\* The logical evaluation points a caller's columns are taken from.
Points == {1, 2}

VARIABLES
    ev,     \* the evaluator's captured metadata (lambda captures, l.226-228)
    buf,    \* the captured scratch buffers, per evaluator instance
    call,   \* per calling thread: the state of its evaluate() call
    saved   \* history: one remembered output column of an earlier call

vars == <<ev, buf, call, saved>>

(***************************************************************************)
(* Element values.                                                         *)
(***************************************************************************)
Zero        == <<0>>
InAtom(v, x)  == <<1, v, x>>
ParAtom(q, x) == <<2, q, x>>
TimeAtom(x) == <<3, x>>
Poison      == <<4>>          \* prior content of caller cells nobody reads
Garbage     == <<6>>          \* value read through a null or wild pointer
Uninit      == <<7>>          \* content of freshly allocated array memory

\* A memory cell: the value and, for mppp::real, the precision it was
\* constructed with (0: not constructed / not mppp::real).
Cell(val, pr) == [v |-> val, p |-> pr]

RECURSIVE Cat(_, _)
Cat(f, n) == IF n = 0 THEN <<>> ELSE Cat(f, n - 1) \o f[n - 1]

Min(a, b) == IF a < b THEN a ELSE b
Max(a, b) == IF a > b THEN a ELSE b

(***************************************************************************)
(* The compiled kernels.  cfunc(out, in, pars, time) computes for every    *)
(* output row o a value from the nvars inputs, the nparams parameters and  *)
(* (only if the function is time-dependent) the time of one point.         *)
(***************************************************************************)
KernelValue(o, ins, ps, tm) ==
    <<5, o>> \o Cat(ins, ev.nvars) \o Cat(ps, ev.nparams)
             \o (IF ev.is_time_dependent THEN tm ELSE <<>>)

NullPtr == -1

\* Read of one element through a pointer into memory rd.
Deref(rd, ptr, off) ==
    IF ptr = NullPtr \/ (ptr + off) \notin DOMAIN rd THEN Garbage
    ELSE rd[ptr + off].v

\* One invocation of a kernel over `lanes` points laid out with the given
\* stride: the result is the function from output offsets (relative to the
\* output pointer) to the cells written there.
\*   cfunc          : stride 1,         lanes 1
\*   cfunc (batch)  : stride simd_size, lanes simd_size
\*   cfunc.strided  : stride as passed, lanes 1 or simd_size
KernelWrites(rin, rpar, rtime, inp, parp, timep, stride, lanes) ==
    [off \in {o * stride + j : o \in 0..(ev.nouts - 1), j \in 0..(lanes - 1)} |->
        LET o == CHOOSE oo \in 0..(ev.nouts - 1) :
                    \E j \in 0..(lanes - 1) : off = oo * stride + j
            j == off - o * stride
        IN Cell(KernelValue(o,
                    [v \in 0..(ev.nvars - 1) |-> Deref(rin, inp, v * stride + j)],
                    [q \in 0..(ev.nparams - 1) |-> Deref(rpar, parp, q * stride + j)],
                    IF ev.is_time_dependent THEN Deref(rtime, timep, j) ELSE <<>>),
                ev.prec)]

(***************************************************************************)
(* NumPy arrays.  An array is a view: a data pointer (base), a shape and   *)
(* strides (in elements) over the memory of the call.  Arrays with three   *)
(* dimensions are only ever rejected, their third extent is taken as 1.    *)
(***************************************************************************)
NoArr == [present |-> FALSE, ndim |-> 0, sh0 |-> 0, sh1 |-> 0, base |-> 0,
          st0 |-> 0, st1 |-> 0, wr |-> FALSE, dt |-> "same"]

\* A view of ndim dimensions whose elements of one row are cs cells apart
\* and whose rows follow each other densely (cs = 1: C-contiguous).
MkArr(nd, s0, s1, b, cs, w, d) ==
    [present |-> TRUE, ndim |-> nd, sh0 |-> s0, sh1 |-> IF nd = 1 THEN 1 ELSE s1,
     base |-> b, st0 |-> IF nd = 1 THEN cs ELSE s1 * cs,
     st1 |-> IF nd = 1 THEN 0 ELSE cs, wr |-> w, dt |-> d]

Size(a) == IF a.present THEN a.sh0 * a.sh1 ELSE 0
ElemAddr(a, i, j) == a.base + i * a.st0 + j * a.st1
Elems(a) == IF a.present
            THEN {ElemAddr(a, i, j) : i \in 0..(a.sh0 - 1), j \in 0..(a.sh1 - 1)}
            ELSE {}
\* The memory bounds of a view (empty for an array without elements).
Lo(a) == a.base
Hi(a) == ElemAddr(a, a.sh0 - 1, a.sh1 - 1)
Span(a) == IF Size(a) = 0 THEN {} ELSE Lo(a)..Hi(a)

\* Addresses of freshly allocated arrays: one region per role, beyond every
\* address of the caller's memory.
RegionPitch == 4 * (MaxVars + MaxOuts + MaxPars + 2) * (MaxN + 2)
FreshBase(r) == r * RegionPitch
FreshIn   == FreshBase(1)
FreshOut  == FreshBase(2)
FreshPars == FreshBase(3)
FreshTime == FreshBase(4)

\* py::array(dtype, shape): a new C-contiguous writeable array.
FreshArr(b, nd, s0, s1) == MkArr(nd, s0, s1, b, 1, TRUE, "same")

\* NPY_ARRAY_C_CONTIGUOUS as NumPy computes it: dimensions of extent 1 and
\* arrays without elements do not constrain the strides.
is_npy_array_carray(a) ==
    \/ Size(a) = 0
    \/ /\ (a.sh1 = 1 \/ a.st1 = 1 \/ a.ndim = 1)
       /\ (a.sh0 = 1 \/ a.st0 = a.sh1)

\* numpy.may_share_memory on two arrays: their memory bounds overlap.
may_share_memory2(a, b) == Span(a) \cap Span(b) # {}

\* The variadic overload: some pair of the arrays may share memory.
may_share_memory(arrs) ==
    \E i \in DOMAIN arrs : \E j \in DOMAIN arrs :
        i < j /\ may_share_memory2(arrs[i], arrs[j])

\* arr.astype(dt, casting="safe") when the dtype differs: a fresh C-ordered
\* writeable copy of the same shape at address b holding the converted
\* values; the source array and its memory are left alone.
AstypeArr(a, b) == FreshArr(b, a.ndim, a.sh0, a.sh1)
AstypeMem(mem, a, b) ==
    LET n == AstypeArr(a, b)
    IN [x \in DOMAIN mem \cup Elems(n) |->
          IF x \in Elems(n)
          THEN LET i == (x - b) \div n.st0
                   j == IF n.ndim = 1 THEN 0 ELSE (x - b) % n.st0
               IN mem[ElemAddr(a, i, j)]
          ELSE mem[x]]

\* pyreal_check_array(arr, prec): every element is a constructed mppp::real
\* of precision prec.
pyreal_check_array(mem, a, pr) == \A x \in Elems(a) : mem[x].p = pr

\* pyreal_ensure_array(arr, prec): every element of arr becomes a
\* constructed value of precision prec (constructed as zero when it was not
\* constructed, rounded to prec when it had another precision).
pyreal_ensure_array(mem, a, pr) ==
    [x \in DOMAIN mem |->
        IF x \in Elems(a)
        THEN Cell(IF mem[x].p = 0 THEN Zero ELSE mem[x].v, pr)
        ELSE mem[x]]

(***************************************************************************)
(* The arguments of one call and the caller's memory.                      *)
(*   in, out, pars, time : the arrays as the caller passes them (NoArr:    *)
(*                         not passed; time is NoArr for a scalar time)    *)
(*   tkind               : "none", "scalar" (a T) or "iter" (an iterable)  *)
(*   x                   : the logical point evaluated in each column      *)
(*   inP, outP, parP, timeP : precision of the cells of each buffer        *)
(***************************************************************************)
PointOf(arg, j) == IF j \in DOMAIN arg.x THEN arg.x[j] ELSE 1

\* The row and column of the element of view a that lives at address x.
RowCol(a, x) ==
    CHOOSE ij \in (0..(a.sh0 - 1)) \X (0..(a.sh1 - 1)) : ElemAddr(a, ij[1], ij[2]) = x

\* The caller's memory when evaluate() is entered: input, parameter and time
\* cells hold the atoms of their row and point, every other cell of the
\* caller's buffers (the output buffer, gaps of strided views) holds Poison.
InitMem(arg) ==
    [x \in Span(arg.in) \cup Span(arg.out) \cup Span(arg.pars) \cup Span(arg.time) |->
        IF x \in Elems(arg.in)
        THEN LET ij == RowCol(arg.in, x)
             IN Cell(InAtom(ij[1], PointOf(arg, ij[2])), arg.inP)
        ELSE IF x \in Elems(arg.pars)
        THEN LET ij == RowCol(arg.pars, x)
             IN Cell(ParAtom(ij[1], PointOf(arg, ij[2])), arg.parP)
        ELSE IF x \in Elems(arg.time)
        THEN LET ij == RowCol(arg.time, x)
             IN Cell(TimeAtom(PointOf(arg, IF arg.time.ndim = 1 THEN ij[1] ELSE ij[2])),
                     arg.timeP)
        ELSE Cell(Poison, arg.outP)]

NoArg == [in |-> NoArr, out |-> NoArr, pars |-> NoArr, time |-> NoArr,
          tkind |-> "none", x |-> <<>>, inP |-> 0, outP |-> 0, parP |-> 0, timeP |-> 0]

(***************************************************************************)
(* The state of one evaluate() call.                                       *)
(***************************************************************************)
IdleCall(i) ==
    [pc |-> "idle", inst |-> i, arg |-> NoArg,
     inputs |-> NoArr, outputs_ |-> NoArr, outputs |-> NoArr,
     pars |-> NoArr, time |-> NoArr,
     mem |-> <<>>, err |-> "none",
     multi_eval |-> FALSE, zero_copy |-> FALSE, k |-> 0, klog |-> <<>>]

\* py_throw: the call ends with the given error.
Throw(t, kind) == call' = [call EXCEPT ![t].pc = "error", ![t].err = kind]

Goto(t, label) == call' = [call EXCEPT ![t].pc = label]

(***************************************************************************)
(* evaluate(inputs, outputs, pars, time): argument conversion and          *)
(* validation, in the order of the code.                                   *)
(***************************************************************************)

\* l.233-270: the arguments become arrays (a scalar time becomes a fresh
\* one-element array), then every array whose dtype is not T's is replaced
\* by its astype(..., casting="safe") copy; astype raises when the cast is
\* not a safe one.
Call(t, arg) ==
    LET c    == call[t]
        m0   == InitMem(arg)
        tarr == IF arg.tkind = "scalar" THEN FreshArr(FreshTime, 1, 1, 1) ELSE arg.time
        m1   == IF arg.tkind = "scalar"
                THEN [x \in DOMAIN m0 \cup {FreshTime} |->
                        IF x = FreshTime THEN Cell(TimeAtom(PointOf(arg, 0)), arg.timeP)
                        ELSE m0[x]]
                ELSE m0
        cast(a) == a.present /\ a.dt # "same"
        m2   == IF cast(arg.in) THEN AstypeMem(m1, arg.in, FreshIn) ELSE m1
        m3   == IF cast(arg.out) THEN AstypeMem(m2, arg.out, FreshOut) ELSE m2
        m4   == IF cast(arg.pars) THEN AstypeMem(m3, arg.pars, FreshPars) ELSE m3
        m5   == IF cast(tarr) THEN AstypeMem(m4, tarr, FreshTime) ELSE m4
        bad  == \E a \in {arg.in, arg.out, arg.pars, tarr} : a.present /\ a.dt = "unsafe"
    IN /\ c.pc = "idle"
       /\ call' = [call EXCEPT ![t] =
            [c EXCEPT !.pc = IF bad THEN "error" ELSE "check_args",
                      !.err = IF bad THEN "CastError" ELSE "none",
                      !.arg = arg,
                      !.inputs = IF cast(arg.in) THEN AstypeArr(arg.in, FreshIn) ELSE arg.in,
                      !.outputs_ = IF cast(arg.out) THEN AstypeArr(arg.out, FreshOut) ELSE arg.out,
                      !.pars = IF cast(arg.pars) THEN AstypeArr(arg.pars, FreshPars) ELSE arg.pars,
                      !.time = IF cast(tarr) THEN AstypeArr(tarr, FreshTime) ELSE tarr,
                      !.mem = m5]]
       /\ UNCHANGED <<ev, buf, saved>>

\* CheckArgs without the test for a missing time.
CheckArgs_NoTime(t) ==
    LET c == call[t]
        multi == c.inputs.ndim = 2
    IN /\ c.pc = "check_args"
       /\ IF ev.nparams > 0 /\ ~c.pars.present THEN Throw(t, "MissingParameters")
          ELSE IF c.inputs.ndim # 1 /\ c.inputs.ndim # 2 THEN Throw(t, "InvalidDimensionality")
          ELSE IF c.inputs.sh0 # ev.nvars THEN Throw(t, "SizeMismatch")
          ELSE IF c.time.present /\ ~multi /\ c.arg.tkind # "scalar"
               THEN Throw(t, "ScalarTimeExpected")
          ELSE call' = [call EXCEPT ![t].pc = "prep_outputs", ![t].multi_eval = multi]
       /\ UNCHANGED <<ev, buf, saved>>

\* l.272-319: required arguments, dimensions and size of the inputs, scalar
\* time in a single evaluation.
CheckArgs(t) ==
    LET c == call[t]
        multi == c.inputs.ndim = 2
    IN /\ c.pc = "check_args"
       /\ IF ev.nparams > 0 /\ ~c.pars.present THEN Throw(t, "MissingParameters")
          ELSE IF ev.is_time_dependent /\ ~c.time.present THEN Throw(t, "MissingTime")
          ELSE IF c.inputs.ndim # 1 /\ c.inputs.ndim # 2 THEN Throw(t, "InvalidDimensionality")
          ELSE IF c.inputs.sh0 # ev.nvars THEN Throw(t, "SizeMismatch")
          ELSE IF c.time.present /\ ~multi /\ c.arg.tkind # "scalar"
               THEN Throw(t, "ScalarTimeExpected")
          ELSE call' = [call EXCEPT ![t].pc = "prep_outputs", ![t].multi_eval = multi]
       /\ UNCHANGED <<ev, buf, saved>>

\* l.321-379: the outputs array is the one provided, after its checks, or a
\* newly created one of shape (nouts,) or (nouts, nevals).
AfterOutputs == IF ev.T = "real" THEN "real_check" ELSE "check_pars"

\* PrepOutputs without the test of the number of outputs.
PrepOutputs_NoSize(t) ==
    LET c == call[t]
        o == c.outputs_
        n == FreshArr(FreshOut, c.inputs.ndim, ev.nouts, c.inputs.sh1)
    IN /\ c.pc = "prep_outputs"
       /\ IF o.present
          THEN IF ~o.wr THEN Throw(t, "NonWritableOutput")
               ELSE IF o.ndim # c.inputs.ndim THEN Throw(t, "DimensionMismatch")
               ELSE IF c.multi_eval /\ o.sh1 # c.inputs.sh1 THEN Throw(t, "BatchSizeMismatch")
               ELSE call' = [call EXCEPT ![t].pc = AfterOutputs, ![t].outputs = o]
          ELSE call' = [call EXCEPT ![t].pc = AfterOutputs, ![t].outputs = n,
                            ![t].mem = [x \in DOMAIN c.mem \cup Elems(n) |->
                                          IF x \in Elems(n) THEN Cell(Uninit, 0)
                                          ELSE c.mem[x]]]
       /\ UNCHANGED <<ev, buf, saved>>

PrepOutputs(t) ==
    LET c == call[t]
        o == c.outputs_
        n == FreshArr(FreshOut, c.inputs.ndim, ev.nouts, c.inputs.sh1)
    IN /\ c.pc = "prep_outputs"
       /\ IF o.present
          THEN IF ~o.wr THEN Throw(t, "NonWritableOutput")
               ELSE IF o.ndim # c.inputs.ndim THEN Throw(t, "DimensionMismatch")
               ELSE IF o.sh0 # ev.nouts THEN Throw(t, "SizeMismatch")
               ELSE IF c.multi_eval /\ o.sh1 # c.inputs.sh1 THEN Throw(t, "BatchSizeMismatch")
               ELSE call' = [call EXCEPT ![t].pc = AfterOutputs, ![t].outputs = o]
          ELSE call' = [call EXCEPT ![t].pc = AfterOutputs, ![t].outputs = n,
                            ![t].mem = [x \in DOMAIN c.mem \cup Elems(n) |->
                                          IF x \in Elems(n) THEN Cell(Uninit, 0)
                                          ELSE c.mem[x]]]
       /\ UNCHANGED <<ev, buf, saved>>

\* RealCheck without the test of the precision of the inputs.
RealCheck_NoCheck(t) ==
    LET c == call[t]
    IN /\ c.pc = "real_check"
       /\ call' = [call EXCEPT ![t].pc = "check_pars",
                         ![t].mem = pyreal_ensure_array(c.mem, c.outputs, ev.prec)]
       /\ UNCHANGED <<ev, buf, saved>>

\* l.381-392 (mppp::real only): the inputs are checked for the working
\* precision, then the outputs are made constructed values of that precision.
RealCheck(t) ==
    LET c == call[t]
    IN /\ c.pc = "real_check"
       /\ IF ~pyreal_check_array(c.mem, c.inputs, ev.prec) THEN Throw(t, "PrecisionMismatch")
          ELSE call' = [call EXCEPT ![t].pc = "check_pars",
                            ![t].mem = pyreal_ensure_array(c.mem, c.outputs, ev.prec)]
       /\ UNCHANGED <<ev, buf, saved>>

\* CheckPars without the test of the second dimension.
CheckPars_NoBatch(t) ==
    LET c == call[t]
        a == c.pars
    IN /\ c.pc = "check_pars"
       /\ IF a.present /\ a.ndim # c.inputs.ndim THEN Throw(t, "DimensionMismatch")
          ELSE IF a.present /\ a.sh0 # ev.nparams THEN Throw(t, "SizeMismatch")
          ELSE IF a.present /\ ev.T = "real" /\ ~pyreal_check_array(c.mem, a, ev.prec)
               THEN Throw(t, "PrecisionMismatch")
          ELSE Goto(t, "check_time")
       /\ UNCHANGED <<ev, buf, saved>>

\* l.394-442: the pars array, if one was passed.
CheckPars(t) ==
    LET c == call[t]
        a == c.pars
    IN /\ c.pc = "check_pars"
       /\ IF a.present /\ a.ndim # c.inputs.ndim THEN Throw(t, "DimensionMismatch")
          ELSE IF a.present /\ a.sh0 # ev.nparams THEN Throw(t, "SizeMismatch")
          ELSE IF a.present /\ c.multi_eval /\ a.sh1 # c.inputs.sh1
               THEN Throw(t, "BatchSizeMismatch")
          ELSE IF a.present /\ ev.T = "real" /\ ~pyreal_check_array(c.mem, a, ev.prec)
               THEN Throw(t, "PrecisionMismatch")
          ELSE Goto(t, "check_time")
       /\ UNCHANGED <<ev, buf, saved>>

\* CheckTime without the test of the precision.
CheckTime_NoPrec(t) ==
    LET c == call[t]
        a == c.time
    IN /\ c.pc = "check_time"
       /\ IF a.present /\ a.ndim # 1 THEN Throw(t, "DimensionMismatch")
          ELSE IF a.present /\ c.multi_eval /\ a.sh0 # c.inputs.sh1
               THEN Throw(t, "BatchSizeMismatch")
          ELSE Goto(t, "decide")
       /\ UNCHANGED <<ev, buf, saved>>

\* l.444-486: the time array, if a time was passed.
CheckTime(t) ==
    LET c == call[t]
        a == c.time
    IN /\ c.pc = "check_time"
       /\ IF a.present /\ a.ndim # 1 THEN Throw(t, "DimensionMismatch")
          ELSE IF a.present /\ c.multi_eval /\ a.sh0 # c.inputs.sh1
               THEN Throw(t, "BatchSizeMismatch")
          ELSE IF a.present /\ ev.T = "real" /\ ~pyreal_check_array(c.mem, a, ev.prec)
               THEN Throw(t, "PrecisionMismatch")
          ELSE Goto(t, "decide")
       /\ UNCHANGED <<ev, buf, saved>>

(***************************************************************************)
(* The zero-copy decision and the dispatch.                                *)
(***************************************************************************)

\* ZeroCopy with the pars array left out of the test for shared memory.
ZeroCopy_NoPars(c) ==
    /\ is_npy_array_carray(c.inputs)
    /\ is_npy_array_carray(c.outputs)
    /\ (~c.pars.present \/ is_npy_array_carray(c.pars))
    /\ (~c.time.present \/ is_npy_array_carray(c.time))
    /\ ~may_share_memory(<<c.inputs, c.outputs>>
                         \o (IF c.time.present THEN <<c.time>> ELSE <<>>))

\* l.488-511: zero-copy needs C-contiguous arrays that cannot share memory.
ZeroCopy(c) ==
    /\ is_npy_array_carray(c.inputs)
    /\ is_npy_array_carray(c.outputs)
    /\ (~c.pars.present \/ is_npy_array_carray(c.pars))
    /\ (~c.time.present \/ is_npy_array_carray(c.time))
    /\ ~may_share_memory(<<c.inputs, c.outputs>>
                         \o (IF c.pars.present THEN <<c.pars>> ELSE <<>>)
                         \o (IF c.time.present THEN <<c.time>> ELSE <<>>))

nevals(c) == c.inputs.sh1                          \* l.525
\* n_simd_blocks counting a last, incomplete block as well.
n_simd_blocks_Ceil(c) == (nevals(c) + ev.simd_size - 1) \div ev.simd_size
n_simd_blocks(c) == nevals(c) \div ev.simd_size    \* l.528

\* Loop heads of the batch paths: where control goes when the block loop
\* stands at block k, and when the remainder loop stands at point k.
BlockLoop(c, k, block, rem) ==
    IF k < n_simd_blocks(c) THEN <<block, k>>
    ELSE IF n_simd_blocks(c) * ev.simd_size < nevals(c)
         THEN <<rem, n_simd_blocks(c) * ev.simd_size>>
         ELSE <<"done", 0>>

RemLoop(c, k, rem) == IF k < nevals(c) THEN <<rem, k>> ELSE <<"done", 0>>

\* l.488-530, 641-646: the decision and the branch taken.
Decide(t) ==
    LET c  == call[t]
        zc == ZeroCopy(c)
        nx == IF c.multi_eval
              THEN IF zc THEN BlockLoop(c, 0, "zc_block", "zc_rem")
                         ELSE BlockLoop(c, 0, "buf_gather", "rem_gather")
              ELSE IF zc THEN <<"sgl_zc", 0>> ELSE <<"sgl_gather", 0>>
    IN /\ c.pc = "decide"
       /\ call' = [call EXCEPT ![t].zero_copy = zc, ![t].pc = nx[1], ![t].k = nx[2]]
       /\ UNCHANGED <<ev, buf, saved>>

\* A kernel invocation as the dispatcher makes it: the entry point, the
\* memory the pointers refer to, the four pointers and the stride.
Invocation(f, sp, o, i, p, tm, st) ==
    [fn |-> f, space |-> sp, out |-> o, in |-> i, par |-> p, time |-> tm, stride |-> st]

\* Memory m after a kernel wrote w through the output pointer outp.
Store(m, outp, w) ==
    [x \in DOMAIN m |-> IF (x - outp) \in DOMAIN w THEN w[x - outp] ELSE m[x]]

\* Pointers of the batch zero-copy path at element offset off (l.536-551).
ZcIn(c, off)   == IF ev.nvars > 0 THEN c.inputs.base + off ELSE NullPtr
ZcPar(c, off)  == IF ev.nparams > 0
                  THEN (IF c.pars.present THEN c.pars.base + off ELSE NullPtr)
                  ELSE NullPtr
ZcTime(c, off) == IF ev.is_time_dependent
                  THEN (IF c.time.present THEN c.time.base + off ELSE NullPtr)
                  ELSE NullPtr

\* ZcBlock with the length of the block as the stride.
ZcBlock_BlockStride(t) ==
    LET c  == call[t]
        so == c.k * ev.simd_size
        w  == KernelWrites(c.mem, c.mem, c.mem, ZcIn(c, so), ZcPar(c, so), ZcTime(c, so),
                           ev.simd_size, ev.simd_size)
        nx == BlockLoop(c, c.k + 1, "zc_block", "zc_rem")
    IN /\ c.pc = "zc_block"
       /\ call' = [call EXCEPT ![t].mem = Store(c.mem, c.outputs.base + so, w),
                        ![t].klog = Append(c.klog,
                            Invocation("fptr_batch_s", "caller", c.outputs.base + so,
                                       ZcIn(c, so), ZcPar(c, so), ZcTime(c, so), ev.simd_size)),
                        ![t].pc = nx[1], ![t].k = nx[2]]
       /\ UNCHANGED <<ev, buf, saved>>

\* l.554-561: one simd block, strided batch kernel on the caller's memory.
ZcBlock(t) ==
    LET c  == call[t]
        so == c.k * ev.simd_size
        w  == KernelWrites(c.mem, c.mem, c.mem, ZcIn(c, so), ZcPar(c, so), ZcTime(c, so),
                           nevals(c), ev.simd_size)
        nx == BlockLoop(c, c.k + 1, "zc_block", "zc_rem")
    IN /\ c.pc = "zc_block"
       /\ call' = [call EXCEPT ![t].mem = Store(c.mem, c.outputs.base + so, w),
                        ![t].klog = Append(c.klog,
                            Invocation("fptr_batch_s", "caller", c.outputs.base + so,
                                       ZcIn(c, so), ZcPar(c, so), ZcTime(c, so), nevals(c))),
                        ![t].pc = nx[1], ![t].k = nx[2]]
       /\ UNCHANGED <<ev, buf, saved>>

\* l.564-568: one remainder point, strided scalar kernel.
ZcRem(t) ==
    LET c  == call[t]
        w  == KernelWrites(c.mem, c.mem, c.mem, ZcIn(c, c.k), ZcPar(c, c.k), ZcTime(c, c.k),
                           nevals(c), 1)
        nx == RemLoop(c, c.k + 1, "zc_rem")
    IN /\ c.pc = "zc_rem"
       /\ call' = [call EXCEPT ![t].mem = Store(c.mem, c.outputs.base + c.k, w),
                        ![t].klog = Append(c.klog,
                            Invocation("fptr_scal_s", "caller", c.outputs.base + c.k,
                                       ZcIn(c, c.k), ZcPar(c, c.k), ZcTime(c, c.k), nevals(c))),
                        ![t].pc = nx[1], ![t].k = nx[2]]
       /\ UNCHANGED <<ev, buf, saved>>

\* l.642-645: single evaluation, scalar kernel on the caller's memory.
SglZc(t) ==
    LET c  == call[t]
        pp == IF c.pars.present THEN c.pars.base ELSE NullPtr
        tp == IF c.time.present THEN c.time.base ELSE NullPtr
        w  == KernelWrites(c.mem, c.mem, c.mem, c.inputs.base, pp, tp, 1, 1)
    IN /\ c.pc = "sgl_zc"
       /\ call' = [call EXCEPT ![t].mem = Store(c.mem, c.outputs.base, w),
                        ![t].klog = Append(c.klog,
                            Invocation("fptr_scal", "caller", c.outputs.base,
                                       c.inputs.base, pp, tp, 1)),
                        ![t].pc = "done"]
       /\ UNCHANGED <<ev, buf, saved>>

(***************************************************************************)
(* The buffered paths: gather into the scratch buffers, run the dense      *)
(* kernel on them, scatter buf_out into the outputs array.                 *)
(***************************************************************************)

\* Scratch buffer old after buf[i * lanes + j] = src(i, col0 + j) for
\* i < rows, j < lanes (l.577-581, 587-591, 616-618, 623-625, 649-651).
Gather(old, m, a, rows, lanes, col0) ==
    [s \in DOMAIN old |->
        IF s < rows * lanes
        THEN m[ElemAddr(a, s \div lanes, col0 + (s % lanes))]
        ELSE old[s]]

\* buf_time[j] = u_time(col0 + j) for j < lanes (l.598-600, 631, 666).
GatherTime(old, m, a, lanes, col0) ==
    [s \in DOMAIN old |-> IF s < lanes THEN m[ElemAddr(a, col0 + s, 0)] ELSE old[s]]

\* The scratch buffers after the gather of `lanes` points from column col0.
Gathered(c, lanes, col0) ==
    LET b == buf[c.inst]
    IN [b EXCEPT
          !.in   = Gather(b.in, c.mem, c.inputs, ev.nvars, lanes, col0),
          !.pars = IF c.pars.present
                   THEN Gather(b.pars, c.mem, c.pars, ev.nparams, lanes, col0)
                   ELSE b.pars,
          !.time = IF c.time.present
                   THEN GatherTime(b.time, c.mem, c.time, lanes, col0)
                   ELSE b.time]

\* The scratch buffers after the dense kernel of `lanes` lanes ran on them
\* (l.604, 634, 670).
Computed(c, lanes) ==
    LET b == buf[c.inst]
        w == KernelWrites(b.in, b.pars, b.time, 0, 0, 0, lanes, lanes)
    IN [b EXCEPT !.out = [s \in DOMAIN b.out |-> IF s \in DOMAIN w THEN w[s] ELSE b.out[s]]]

\* The call's memory after u_outputs(i, col0 + j) = buf_out[i * lanes + j]
\* for i < nouts, j < lanes (l.607-611, 636-638, 674-676).
Scattered(c, lanes, col0) ==
    LET b == buf[c.inst]
        dst == {<<i, j>> : i \in 0..(ev.nouts - 1), j \in 0..(lanes - 1)}
    IN [x \in DOMAIN c.mem |->
          IF \E ij \in dst : x = ElemAddr(c.outputs, ij[1], col0 + ij[2])
          THEN LET ij == CHOOSE ij \in dst : x = ElemAddr(c.outputs, ij[1], col0 + ij[2])
               IN b.out[ij[1] * lanes + ij[2]]
          ELSE c.mem[x]]

ScratchInvocation(f) == Invocation(f, "scratch", 0, 0, 0, 0, 0)

\* BufGather filling buf_in point after point: the value of row i of point
\* j goes to slot j * nvars + i.
BufGather_PointMajor(t) ==
    LET c == call[t]
        b == buf[c.inst]
        g == Gathered(c, ev.simd_size, c.k * ev.simd_size)
    IN /\ c.pc = "buf_gather"
       /\ buf' = [buf EXCEPT ![c.inst] =
                    [g EXCEPT !.in = [s \in DOMAIN b.in |->
                        c.mem[ElemAddr(c.inputs, s % ev.nvars,
                                       c.k * ev.simd_size + (s \div ev.nvars))]]]]
       /\ Goto(t, "buf_kernel")
       /\ UNCHANGED <<ev, saved>>

\* l.575-601: gather of simd block k.
BufGather(t) ==
    LET c == call[t]
    IN /\ c.pc = "buf_gather"
       /\ buf' = [buf EXCEPT ![c.inst] = Gathered(c, ev.simd_size, c.k * ev.simd_size)]
       /\ Goto(t, "buf_kernel")
       /\ UNCHANGED <<ev, saved>>

\* l.603-604: the batch kernel on the scratch buffers.
BufKernel(t) ==
    LET c == call[t]
    IN /\ c.pc = "buf_kernel"
       /\ buf' = [buf EXCEPT ![c.inst] = Computed(c, ev.simd_size)]
       /\ call' = [call EXCEPT ![t].pc = "buf_scatter",
                        ![t].klog = Append(c.klog, ScratchInvocation("fptr_batch"))]
       /\ UNCHANGED <<ev, saved>>

\* BufScatter reading buf_out point after point: output (i, k*W + j) is
\* taken from slot j * nouts + i.
BufScatter_PointMajor(t) ==
    LET c  == call[t]
        b  == buf[c.inst]
        W  == ev.simd_size
        dst == {<<i, j>> : i \in 0..(ev.nouts - 1), j \in 0..(W - 1)}
        nx == BlockLoop(c, c.k + 1, "buf_gather", "rem_gather")
    IN /\ c.pc = "buf_scatter"
       /\ call' = [call EXCEPT
             ![t].mem = [x \in DOMAIN c.mem |->
                IF \E ij \in dst : x = ElemAddr(c.outputs, ij[1], c.k * W + ij[2])
                THEN LET ij == CHOOSE ij \in dst :
                                  x = ElemAddr(c.outputs, ij[1], c.k * W + ij[2])
                     IN b.out[ij[2] * ev.nouts + ij[1]]
                ELSE c.mem[x]],
             ![t].pc = nx[1], ![t].k = nx[2]]
       /\ UNCHANGED <<ev, buf, saved>>

\* l.606-612: scatter of simd block k, then the next block.
BufScatter(t) ==
    LET c  == call[t]
        nx == BlockLoop(c, c.k + 1, "buf_gather", "rem_gather")
    IN /\ c.pc = "buf_scatter"
       /\ call' = [call EXCEPT ![t].mem = Scattered(c, ev.simd_size, c.k * ev.simd_size),
                        ![t].pc = nx[1], ![t].k = nx[2]]
       /\ UNCHANGED <<ev, buf, saved>>

\* RemGather writing the scratch buffers in the layout of a simd block: the
\* value of row i goes to slot i * simd_size.
RemGather_BlockLayout(t) ==
    LET c == call[t]
        b == buf[c.inst]
        W == ev.simd_size
        put(old, a) == [s \in DOMAIN old |->
                          IF s % W = 0 /\ s \div W < a.sh0
                          THEN c.mem[ElemAddr(a, s \div W, c.k)] ELSE old[s]]
    IN /\ c.pc = "rem_gather"
       /\ buf' = [buf EXCEPT ![c.inst] =
                    [b EXCEPT !.in = put(b.in, c.inputs),
                              !.pars = IF c.pars.present THEN put(b.pars, c.pars) ELSE b.pars,
                              !.time = IF c.time.present
                                       THEN GatherTime(b.time, c.mem, c.time, 1, c.k)
                                       ELSE b.time]]
       /\ Goto(t, "rem_kernel")
       /\ UNCHANGED <<ev, saved>>

\* l.615-632: gather of remainder point k.
RemGather(t) ==
    LET c == call[t]
    IN /\ c.pc = "rem_gather"
       /\ buf' = [buf EXCEPT ![c.inst] = Gathered(c, 1, c.k)]
       /\ Goto(t, "rem_kernel")
       /\ UNCHANGED <<ev, saved>>

\* l.634: the scalar kernel on the scratch buffers.
RemKernel(t) ==
    LET c == call[t]
    IN /\ c.pc = "rem_kernel"
       /\ buf' = [buf EXCEPT ![c.inst] = Computed(c, 1)]
       /\ call' = [call EXCEPT ![t].pc = "rem_scatter",
                        ![t].klog = Append(c.klog, ScratchInvocation("fptr_scal"))]
       /\ UNCHANGED <<ev, saved>>

\* RemScatter writing the column counted from the start of the remainder.
RemScatter_FromZero(t) ==
    LET c  == call[t]
        nx == RemLoop(c, c.k + 1, "rem_gather")
    IN /\ c.pc = "rem_scatter"
       /\ call' = [call EXCEPT ![t].mem = Scattered(c, 1, c.k - n_simd_blocks(c) * ev.simd_size),
                        ![t].pc = nx[1], ![t].k = nx[2]]
       /\ UNCHANGED <<ev, buf, saved>>

\* l.636-639: scatter of remainder point k, then the next point.
RemScatter(t) ==
    LET c  == call[t]
        nx == RemLoop(c, c.k + 1, "rem_gather")
    IN /\ c.pc = "rem_scatter"
       /\ call' = [call EXCEPT ![t].mem = Scattered(c, 1, c.k),
                        ![t].pc = nx[1], ![t].k = nx[2]]
       /\ UNCHANGED <<ev, buf, saved>>

\* SglGather without the copy of the parameters.
SglGather_NoPars(t) ==
    LET c == call[t]
    IN /\ c.pc = "sgl_gather"
       /\ buf' = [buf EXCEPT ![c.inst] = [Gathered(c, 1, 0) EXCEPT !.pars = buf[c.inst].pars]]
       /\ Goto(t, "sgl_kernel")
       /\ UNCHANGED <<ev, saved>>

\* l.647-667: single evaluation, gather.
SglGather(t) ==
    LET c == call[t]
    IN /\ c.pc = "sgl_gather"
       /\ buf' = [buf EXCEPT ![c.inst] = Gathered(c, 1, 0)]
       /\ Goto(t, "sgl_kernel")
       /\ UNCHANGED <<ev, saved>>

\* l.669-670: single evaluation, the scalar kernel on the scratch buffers.
SglKernel(t) ==
    LET c == call[t]
    IN /\ c.pc = "sgl_kernel"
       /\ buf' = [buf EXCEPT ![c.inst] = Computed(c, 1)]
       /\ call' = [call EXCEPT ![t].pc = "sgl_scatter",
                        ![t].klog = Append(c.klog, ScratchInvocation("fptr_scal"))]
       /\ UNCHANGED <<ev, saved>>

\* l.672-676: single evaluation, scatter.
SglScatter(t) ==
    LET c == call[t]
    IN /\ c.pc = "sgl_scatter"
       /\ call' = [call EXCEPT ![t].mem = Scattered(c, 1, 0), ![t].pc = "done"]
       /\ UNCHANGED <<ev, buf, saved>>

\* l.680 / py_throw: the call returns (the outputs array, or the exception).
Return(t) ==
    LET c == call[t]
    IN /\ c.pc \in {"done", "error"}
       /\ call' = [call EXCEPT ![t] = IdleCall(c.inst)]
       /\ UNCHANGED <<ev, buf, saved>>

(***************************************************************************)
(* The evaluator after construction (l.96-231).                            *)
(***************************************************************************)

\* The metadata captured by the lambda.  simd_size > 1 exists only for
\* double (l.100); prec is the working precision of mppp::real.
Configs ==
    {cf \in [T : {"dbl", "real"}, nvars : {0, MaxVars}, nouts : {MaxOuts},
             nparams : {0, MaxPars}, is_time_dependent : BOOLEAN,
             simd_size : 1..MaxW, prec : {0, MaxPrec}] :
        /\ cf.T = "real" => cf.simd_size = 1 /\ cf.prec = MaxPrec
        /\ cf.T = "dbl" => cf.prec = 0}

\* l.187-221: the scratch buffers, value-initialised and (mppp::real) set to
\* the working precision.
ScratchInit(cf) ==
    [in   |-> [s \in 0..(cf.nvars * cf.simd_size - 1) |-> Cell(Zero, cf.prec)],
     out  |-> [s \in 0..(cf.nouts * cf.simd_size - 1) |-> Cell(Zero, cf.prec)],
     pars |-> [s \in 0..(cf.nparams * cf.simd_size - 1) |-> Cell(Zero, cf.prec)],
     time |-> [s \in 0..(cf.simd_size - 1) |-> Cell(Zero, cf.prec)]]

NoSaved == [set |-> FALSE, multi |-> FALSE, zc |-> FALSE, blk |-> FALSE,
            n |-> 0, j |-> 0, key |-> <<>>, col |-> <<>>]

\* The calling threads and the evaluator instances.
Threads == {1}
Insts == {1}

\* One evaluator instance, called from one thread.
Init ==
    /\ ev \in Configs
    /\ buf = [i \in Insts |-> ScratchInit(ev)]
    /\ call = [t \in Threads |-> IdleCall(1)]
    /\ saved = NoSaved

(***************************************************************************)
(* Arguments of the calls explored.  A plan is an array without its place  *)
(* in memory; Place puts it at a base address.                             *)
(***************************************************************************)
Plan(nd, s0, s1, cs, w, d) == MkArr(nd, s0, s1, 0, cs, w, d)
Place(pl, b) == IF pl.present THEN [pl EXCEPT !.base = b] ELSE pl
\* Cells a placed plan occupies at most.
Footprint(pl) == IF pl.present THEN pl.sh0 * pl.sh1 * Max(pl.st1, IF pl.ndim = 1 THEN pl.st0 ELSE 1) ELSE 0

\* The caller's buffers one after the other, never overlapping.
Packed(pi, po, pp, pt, tk, xs, precs) ==
    [in    |-> Place(pi, 0),
     out   |-> Place(po, Footprint(pi)),
     pars  |-> Place(pp, Footprint(pi) + Footprint(po)),
     time  |-> Place(pt, Footprint(pi) + Footprint(po) + Footprint(pp)),
     tkind |-> tk, x |-> xs,
     inP |-> precs[1], outP |-> precs[2], parP |-> precs[3], timeP |-> precs[4]]

\* Precisions of a caller whose buffers all hold values of the working
\* precision.
GoodPrecs == <<ev.prec, ev.prec, ev.prec, ev.prec>>

\* Valid calls: single evaluation (n = -1) or n points, the logical points
\* xs, the optional arguments present where the function needs them, the
\* output buffer passed or not, and at most one of the buffers strided.
ValidPlans(n, withOut, strided) ==
    LET nd == IF n < 0 THEN 1 ELSE 2
        cs(r) == IF strided = r THEN 2 ELSE 1
    IN [in   |-> Plan(nd, ev.nvars, n, cs("in"), TRUE, "same"),
        out  |-> IF withOut THEN Plan(nd, ev.nouts, n, cs("out"), TRUE, "same") ELSE NoArr,
        pars |-> IF ev.nparams > 0 THEN Plan(nd, ev.nparams, n, cs("pars"), TRUE, "same")
                 ELSE NoArr,
        time |-> IF ev.is_time_dependent /\ n >= 0 THEN Plan(1, n, 1, cs("time"), TRUE, "same")
                 ELSE NoArr,
        tkind |-> IF ~ev.is_time_dependent THEN "none"
                  ELSE IF n < 0 THEN "scalar" ELSE "iter"]

\* The logical points of n columns: all the same point 1, or one column
\* another point.
PointSeqs(n) ==
    {xs \in [0..(n - 1) -> Points] : Cardinality({j \in 0..(n - 1) : xs[j] # 1}) <= 1}

\* The valid calls with the given choices of passing the output buffer and
\* of the strided buffer, for every mode, point count and points.
ValidArgs(withOuts, strideds) ==
    UNION { { Packed(vp.in, vp.out, vp.pars, vp.time, vp.tkind, xs, GoodPrecs) :
                vp \in { ValidPlans(n, wo, sd) : wo \in withOuts, sd \in strideds },
                xs \in PointSeqs(IF n < 0 THEN 1 ELSE n) } : n \in (-1)..MaxN }

\* Calls whose results are compared with each other: the same buffers, all
\* contiguous (zero-copy) or with strided inputs (buffered).
HistArgs == ValidArgs({TRUE}, {"none", "in"})

(***************************************************************************)
(* History of results, for comparing calls with each other.                *)
(***************************************************************************)

\* What the caller passed for column j (the only column, 0, in a single
\* evaluation): the values of the nvars inputs, of the nparams parameters
\* and, if the function is time-dependent, the time, as they stood in the
\* caller's memory when evaluate() was entered.
ArgColumn(arg, j) ==
    LET m == InitMem(arg)
    IN <<[v \in 0..(ev.nvars - 1) |-> m[ElemAddr(arg.in, v, j)].v],
         [q \in 0..(ev.nparams - 1) |-> m[ElemAddr(arg.pars, q, j)].v],
         IF ~ev.is_time_dependent THEN <<>>
         ELSE IF arg.tkind = "scalar" THEN TimeAtom(PointOf(arg, 0))
         ELSE m[ElemAddr(arg.time, j, 0)].v>>

\* The values column j of the returned outputs array holds.
OutColumn(c, j) == [o \in 0..(ev.nouts - 1) |-> c.mem[ElemAddr(c.outputs, o, j)].v]

Columns(c) == IF c.multi_eval THEN 0..(nevals(c) - 1) ELSE {0}

\* Column j was evaluated by the batch kernel, in a full simd block.
InBlock(c, j) == c.multi_eval /\ j < n_simd_blocks(c) * ev.simd_size

\* The call returns and the result of one of its columns is remembered
\* (once; only columns of logical point 1 are remembered), with the mode and
\* path of the call, its point count, the column and whether it fell in a
\* full simd block.
Save(t) ==
    LET c == call[t]
    IN /\ c.pc = "done"
       /\ ~saved.set
       /\ \E j \in Columns(c) :
            /\ PointOf(c.arg, j) = 1
            /\ saved' = [set |-> TRUE, multi |-> c.multi_eval, zc |-> c.zero_copy,
                         blk |-> InBlock(c, j), n |-> nevals(c), j |-> j,
                         key |-> ArgColumn(c.arg, j), col |-> OutColumn(c, j)]
       /\ call' = [call EXCEPT ![t] = IdleCall(c.inst)]
       /\ UNCHANGED <<ev, buf>>

\* Calls that exercise the validation: every buffer's shape, dimensions,
\* writeability, dtype and precision right or wrong, buffers contiguous and
\* apart, every column the logical point 1.  n < 0: single evaluation.
OtherDim(nd) == IF nd = 1 THEN 2 ELSE 1

ValInPlans ==
    {Plan(1, s0, 1, 1, TRUE, "same") : s0 \in {ev.nvars, ev.nvars + 1}}
    \cup {Plan(2, ev.nvars, n, 1, TRUE, "same") : n \in 1..2}
    \cup {Plan(2, ev.nvars + 1, 2, 1, TRUE, "same"), Plan(3, ev.nvars, 2, 1, TRUE, "same"),
          Plan(2, ev.nvars, 2, 1, TRUE, "safe"), Plan(2, ev.nvars, 2, 1, TRUE, "unsafe")}

ValOutPlans(nd, n) ==
    {NoArr}
    \cup {Plan(nd, ev.nouts, n, 1, w, d) : w \in BOOLEAN, d \in {"same", "safe", "unsafe"}}
    \cup {Plan(OtherDim(nd), ev.nouts, n, 1, TRUE, "same"),
          Plan(nd, ev.nouts + 1, n, 1, TRUE, "same"),
          Plan(nd, ev.nouts, n + 1, 1, TRUE, "same")}

ValParPlans(nd, n) ==
    {NoArr, Plan(nd, ev.nparams, n, 1, TRUE, "same"),
     Plan(OtherDim(nd), ev.nparams, n, 1, TRUE, "same"),
     Plan(nd, ev.nparams + 1, n, 1, TRUE, "same"),
     Plan(nd, ev.nparams, n + 1, 1, TRUE, "same")}

\* <<tkind, time array>>
ValTimes(n) ==
    {<<"none", NoArr>>, <<"scalar", NoArr>>,
     <<"iter", Plan(1, n, 1, 1, TRUE, "same")>>,
     <<"iter", Plan(1, n + 1, 1, 1, TRUE, "same")>>,
     <<"iter", Plan(2, 1, n, 1, TRUE, "same")>>}

\* Precisions of the caller's cells other than all the working precision:
\* one of the buffers at another precision, or the output buffer
\* unconstructed.
BadPrecs ==
    IF ev.T # "real" THEN {}
    ELSE {[GoodPrecs EXCEPT ![r] = ev.prec - 1] : r \in 1..4}
         \cup {[GoodPrecs EXCEPT ![2] = 0]}

\* Every combination of the plans above, the cells at the working precision.
ValShapes ==
    UNION { { Packed(pi, po, pp, tm[2], tm[1], <<>>, GoodPrecs) :
                po \in ValOutPlans(Min(pi.ndim, 2), pi.sh1),
                pp \in ValParPlans(Min(pi.ndim, 2), pi.sh1),
                tm \in ValTimes(pi.sh1) } : pi \in ValInPlans }

\* Calls with right inputs and a right output buffer, or none, whose cells
\* are not all at the working precision.
ValPrecisions ==
    UNION { { Packed(pi, po, pp, tm[2], tm[1], <<>>, pr) :
                po \in {NoArr, Plan(pi.ndim, ev.nouts, pi.sh1, 1, TRUE, "same")},
                pp \in ValParPlans(pi.ndim, pi.sh1),
                tm \in ValTimes(pi.sh1), pr \in BadPrecs } :
            pi \in {Plan(1, ev.nvars, 1, 1, TRUE, "same"),
                    Plan(2, ev.nvars, 2, 1, TRUE, "same")} }

\* Valid calls with strided inputs, which take the buffered paths.
ValStrided ==
    {Packed(vp.in, vp.out, vp.pars, vp.time, vp.tkind, <<>>, GoodPrecs) :
        vp \in {ValidPlans(n, FALSE, "in") : n \in {-1, MaxN}}}

ValArgs == ValShapes \cup ValPrecisions \cup ValStrided

\* Calls that exercise the zero-copy decision: valid shapes, the time passed
\* also where the function does not need it, and either one of the buffers
\* strided or one of them moved to any place in the caller's memory, on top
\* of the others.  The columns hold the logical points 1, 2, 1, ...
MemPlans(n, strided, withTime) ==
    LET vp == ValidPlans(n, TRUE, strided)
        cs == IF strided = "time" THEN 2 ELSE 1
    IN IF withTime /\ ~ev.is_time_dependent
       THEN [vp EXCEPT !.time = IF n >= 0 THEN Plan(1, n, 1, cs, TRUE, "same") ELSE NoArr,
                       !.tkind = IF n < 0 THEN "scalar" ELSE "iter"]
       ELSE vp

MemPoints(n) == [j \in 0..((IF n < 0 THEN 1 ELSE n) - 1) |-> (j % 2) + 1]

MemTop(a) == Footprint(a.in) + Footprint(a.out) + Footprint(a.pars) + Footprint(a.time)

Moved(a, r, b) ==
    IF r = "out" THEN [a EXCEPT !.out = Place(a.out, b)]
    ELSE IF r = "pars" THEN [a EXCEPT !.pars = Place(a.pars, b)]
    ELSE [a EXCEPT !.time = Place(a.time, b)]

MemArgs ==
    LET packed(n, sd, wt) ==
            LET vp == MemPlans(n, sd, wt)
            IN Packed(vp.in, vp.out, vp.pars, vp.time, vp.tkind, MemPoints(n), GoodPrecs)
        ns == {-1, 2, MaxN}
    IN {packed(n, sd, wt) : n \in ns, sd \in {"none", "in", "out", "pars", "time"},
                            wt \in BOOLEAN}
       \cup UNION { {Moved(packed(n, "none", wt), r, b) :
                        r \in {"out", "pars", "time"},
                        b \in 0..MemTop(packed(n, "none", wt))} :
                    n \in ns, wt \in BOOLEAN }

Step ==
    \E t \in Threads :
        \/ CheckArgs(t) \/ PrepOutputs(t) \/ RealCheck(t) \/ CheckPars(t) \/ CheckTime(t)
        \/ Decide(t)
        \/ ZcBlock(t) \/ ZcRem(t) \/ SglZc(t)
        \/ BufGather(t) \/ BufKernel(t) \/ BufScatter(t)
        \/ RemGather(t) \/ RemKernel(t) \/ RemScatter(t)
        \/ SglGather(t) \/ SglKernel(t) \/ SglScatter(t)
        \/ Return(t)

\* Calls with right and wrong arguments.
CallVal(t) == call[t].pc = "idle" /\ \E arg \in ValArgs : Call(t, arg)
NextVal == (\E t \in Threads : CallVal(t)) \/ Step
SpecVal == Init /\ [][NextVal]_vars

\* Valid calls whose results are remembered and compared.
CallHist(t) == call[t].pc = "idle" /\ \E arg \in HistArgs : Call(t, arg)
NextHist == (\E t \in Threads : CallHist(t) \/ Save(t)) \/ Step
SpecHist == Init /\ [][NextHist]_vars

\* Calls with buffers of every layout, on an evaluator whose scratch
\* buffers are as constructed (the decision does not read them).
CallMem(t) ==
    /\ call[t].pc = "idle"
    /\ buf[call[t].inst] = ScratchInit(ev)
    /\ \E arg \in MemArgs : Call(t, arg)
NextMem == (\E t \in Threads : CallMem(t)) \/ Step
SpecMem == Init /\ [][NextMem]_vars

(***************************************************************************)
(* Properties.                                                             *)
(***************************************************************************)

\* Labels of a call that is still validating its arguments, and the test
\* that it passed validation (it stands at the decision, in a dispatch path
\* or has returned its outputs).
Validating == {"check_args", "prep_outputs", "real_check", "check_pars", "check_time"}
Called(c) == c.pc # "idle"
Passed(c) == c.pc \notin ({"idle", "error"} \cup Validating)

\* Every condition the validation tests, on the arrays of the call.
ChecksPass(c) ==
    /\ ev.nparams > 0 => c.pars.present
    /\ ev.is_time_dependent => c.time.present
    /\ c.inputs.ndim \in {1, 2}
    /\ c.inputs.sh0 = ev.nvars
    /\ (c.time.present /\ c.inputs.ndim = 1) => c.arg.tkind = "scalar"
    /\ c.outputs_.present =>
          /\ c.outputs_.wr
          /\ c.outputs_.ndim = c.inputs.ndim
          /\ c.outputs_.sh0 = ev.nouts
          /\ c.inputs.ndim = 2 => c.outputs_.sh1 = c.inputs.sh1
    /\ c.pars.present =>
          /\ c.pars.ndim = c.inputs.ndim
          /\ c.pars.sh0 = ev.nparams
          /\ c.inputs.ndim = 2 => c.pars.sh1 = c.inputs.sh1
    /\ c.time.present =>
          /\ c.time.ndim = 1
          /\ c.inputs.ndim = 2 => c.time.sh0 = c.inputs.sh1
    /\ ev.T = "real" =>
          \A a \in {c.inputs, c.pars, c.time} : \A x \in Elems(a) : c.mem[x].p = ev.prec

\* What is wrong with the arguments as the caller passed them: the error
\* kinds whose trigger holds.
Defects(c) ==
    LET a == c.arg
        n == a.in.sh1
        batch == a.in.ndim = 2
    IN  (IF \E r \in {a.in, a.out, a.pars, a.time} : r.present /\ r.dt = "unsafe"
         THEN {"CastError"} ELSE {})
   \cup (IF ev.nparams > 0 /\ ~a.pars.present THEN {"MissingParameters"} ELSE {})
   \cup (IF ev.is_time_dependent /\ a.tkind = "none" THEN {"MissingTime"} ELSE {})
   \cup (IF a.in.ndim \notin {1, 2} THEN {"InvalidDimensionality"} ELSE {})
   \cup (IF \/ a.out.present /\ a.out.ndim # a.in.ndim
            \/ a.pars.present /\ a.pars.ndim # a.in.ndim
            \/ a.tkind = "iter" /\ a.time.ndim # 1
         THEN {"DimensionMismatch"} ELSE {})
   \cup (IF \/ a.in.sh0 # ev.nvars
            \/ a.out.present /\ a.out.sh0 # ev.nouts
            \/ a.pars.present /\ a.pars.sh0 # ev.nparams
         THEN {"SizeMismatch"} ELSE {})
   \cup (IF batch /\ (\/ a.out.present /\ a.out.ndim = 2 /\ a.out.sh1 # n
                      \/ a.pars.present /\ a.pars.ndim = 2 /\ a.pars.sh1 # n
                      \/ a.tkind = "iter" /\ a.time.ndim = 1 /\ a.time.sh0 # n)
         THEN {"BatchSizeMismatch"} ELSE {})
   \cup (IF batch /\ a.tkind = "scalar" THEN {"ScalarTimeInBatch"} ELSE {})
   \cup (IF a.out.present /\ ~a.out.wr THEN {"NonWritableOutput"} ELSE {})
   \cup (IF a.in.ndim = 1 /\ a.tkind = "iter" THEN {"ScalarTimeExpected"} ELSE {})
   \cup (IF ev.T = "real" /\ (\/ Size(a.in) > 0 /\ a.inP # ev.prec
                              \/ Size(a.pars) > 0 /\ a.parP # ev.prec
                              \/ (a.tkind = "scalar" \/ Size(a.time) > 0) /\ a.timeP # ev.prec)
         THEN {"PrecisionMismatch"} ELSE {})

\* The call of thread t failed, and kind is all that is wrong with what the
\* caller passed.
FailedOnly(c, kind) == c.pc = "error" /\ Defects(c) = {kind}

\* C1: when the call ends with a validation error no kernel has been
\* invoked, and a kernel is only ever invoked by a call whose arrays satisfy
\* every check of the validation.
C1_NoKernelOnError ==
    \A t \in Threads :
        LET c == call[t]
        IN /\ c.pc \in (Validating \cup {"error", "decide"}) => c.klog = <<>>
           /\ c.klog # <<>> => ChecksPass(c)

\* A batch call failed in the last check of the validation (the length of
\* the time array), everything else being right, with no kernel invoked.
C1_Witness ==
    \E t \in Threads :
        /\ FailedOnly(call[t], "BatchSizeMismatch")
        /\ call[t].arg.tkind = "iter"
        /\ call[t].arg.time.sh0 # call[t].arg.in.sh1
        /\ call[t].klog = <<>>

\* C2: when the call ends with a validation error the cells of the output
\* buffer the caller passed hold what they held when the call was made.
C2_OutputUntouchedOnError ==
    \A t \in Threads :
        LET c == call[t]
        IN c.pc = "error" =>
              \A x \in Span(c.arg.out) : c.mem[x] = InitMem(c.arg)[x]

\* A required argument is not among those the caller passed.
MissingPars(c) == ev.nparams > 0 /\ ~c.arg.pars.present
MissingTm(c) == ev.is_time_dependent /\ c.arg.tkind = "none"

\* C7: a call without the parameters of a function that has parameters, or
\* without the time of a time-dependent function, never gets past the first
\* checks and fails with MissingParameters, respectively MissingTime (the
\* parameters are looked at first; a cast error comes before both); these
\* two errors are raised for no other call.
C7_RequiredArguments ==
    \A t \in Threads :
        LET c == call[t]
        IN Called(c) =>
             /\ (MissingPars(c) \/ MissingTm(c)) => c.pc \in {"check_args", "error"}
             /\ (c.pc = "error" /\ c.err # "CastError" /\ MissingPars(c))
                   => c.err = "MissingParameters"
             /\ (c.pc = "error" /\ c.err # "CastError" /\ ~MissingPars(c) /\ MissingTm(c))
                   => c.err = "MissingTime"
             /\ c.err = "MissingParameters" => MissingPars(c)
             /\ c.err = "MissingTime" => MissingTm(c)

\* A call of a time-dependent function with parameters that passed the
\* parameters but no time failed with MissingTime.
C7_Witness ==
    \E t \in Threads :
        /\ call[t].pc = "error" /\ call[t].err = "MissingTime"
        /\ ev.nparams > 0 /\ call[t].arg.pars.present
        /\ call[t].arg.tkind = "none"

\* The first dimension of one of the arrays passed is not the count of its
\* role.
FirstDimDefect(c) ==
    \/ c.arg.in.sh0 # ev.nvars
    \/ c.arg.out.present /\ c.arg.out.sh0 # ev.nouts
    \/ c.arg.pars.present /\ c.arg.pars.sh0 # ev.nparams

\* C8: a call whose inputs, outputs or pars array has a first dimension
\* other than nvars, nouts, nparams (pars passed to a function without
\* parameters included) never passes validation, and fails with SizeMismatch
\* when nothing else is wrong with it; SizeMismatch is raised for no other
\* call.
C8_FirstDimension ==
    \A t \in Threads :
        LET c == call[t]
        IN Called(c) =>
             /\ FirstDimDefect(c) => ~Passed(c)
             /\ FailedOnly(c, "SizeMismatch") => c.err = "SizeMismatch"
             /\ c.err = "SizeMismatch" => FirstDimDefect(c)

\* A function without parameters was passed a pars array with rows, all else
\* being right, and the call failed with SizeMismatch.
C8_Witness ==
    \E t \in Threads :
        /\ FailedOnly(call[t], "SizeMismatch")
        /\ call[t].err = "SizeMismatch"
        /\ ev.nparams = 0 /\ call[t].arg.pars.present /\ call[t].arg.pars.sh0 > 0
        /\ call[t].arg.in.sh0 = ev.nvars

\* The length of the time the caller passed (a scalar counts as one value).
TimeLen(a) == IF a.tkind = "scalar" THEN 1 ELSE a.time.sh0

\* In a batch call, an array the caller passed disagrees with the inputs on
\* the number of points.
BatchDefect(c) ==
    LET a == c.arg
        n == a.in.sh1
    IN /\ a.in.ndim = 2
       /\ \/ a.out.present /\ a.out.ndim = 2 /\ a.out.sh1 # n
          \/ a.pars.present /\ a.pars.ndim = 2 /\ a.pars.sh1 # n
          \/ a.tkind # "none" /\ a.time.ndim <= 1 /\ TimeLen(a) # n

\* C9: a batch call that passes validation has one point count N: the second
\* dimension of inputs, of the outputs and pars arrays passed, and the
\* length of the time passed; a call where they disagree never passes
\* validation, and fails with BatchSizeMismatch when nothing else is wrong
\* with it; BatchSizeMismatch is raised for no other call.
C9_BatchSizes ==
    \A t \in Threads :
        LET c == call[t]
            a == c.arg
        IN Called(c) =>
             /\ (Passed(c) /\ c.multi_eval) =>
                   /\ a.out.present => a.out.sh1 = a.in.sh1
                   /\ a.pars.present => a.pars.sh1 = a.in.sh1
                   /\ a.tkind # "none" => TimeLen(a) = a.in.sh1
                   /\ c.outputs.sh1 = a.in.sh1
             /\ BatchDefect(c) => ~Passed(c)
             /\ FailedOnly(c, "BatchSizeMismatch") => c.err = "BatchSizeMismatch"
             /\ c.err = "BatchSizeMismatch" => BatchDefect(c)

\* A batch call whose pars array alone has another number of columns than
\* the inputs failed with BatchSizeMismatch.
C9_Witness ==
    \E t \in Threads :
        /\ FailedOnly(call[t], "BatchSizeMismatch")
        /\ call[t].err = "BatchSizeMismatch"
        /\ call[t].arg.pars.present
        /\ call[t].arg.pars.sh1 # call[t].arg.in.sh1
        /\ call[t].arg.out.present /\ call[t].arg.tkind = "iter"

\* C10: a call that passes an output buffer that cannot be written to never
\* gets past the preparation of the outputs, whatever the dtype of the
\* buffer, and fails with NonWritableOutput when nothing else is wrong
\* with it.
C10_NonWritableRejected ==
    \A t \in Threads :
        LET c == call[t]
        IN (Called(c) /\ c.arg.out.present /\ ~c.arg.out.wr) =>
              /\ c.pc \in {"check_args", "prep_outputs", "error"}
              /\ FailedOnly(c, "NonWritableOutput") => c.err = "NonWritableOutput"

\* Column j of the completed call c has the inputs, parameters and time of
\* the remembered column.
SameColumn(c, j) == j \in Columns(c) /\ ArgColumn(c.arg, j) = saved.key

\* C3: a single evaluation that took one path leaves in every output slot
\* the value a single evaluation of the same inputs, parameters and time
\* left when it took the other path.
C3_SinglePathsAgree ==
    \A t \in Threads :
        LET c == call[t]
        IN (/\ c.pc = "done" /\ ~c.multi_eval
            /\ saved.set /\ ~saved.multi /\ saved.zc # c.zero_copy
            /\ SameColumn(c, 0))
           => OutColumn(c, 0) = saved.col

\* A buffered single evaluation of a time-dependent function with variables
\* and parameters completed after a zero-copy one of the same values was
\* remembered.
C3_Witness ==
    \E t \in Threads :
        /\ call[t].pc = "done" /\ ~call[t].multi_eval /\ ~call[t].zero_copy
        /\ saved.set /\ ~saved.multi /\ saved.zc
        /\ SameColumn(call[t], 0)
        /\ ev.nvars > 0 /\ ev.nparams > 0 /\ ev.is_time_dependent

\* C4: in a batch evaluation the output column of a point is the one any
\* other batch evaluation on the same path gave for that point, whatever the
\* point counts of the two calls and the positions of the point in them (in
\* a full simd block or in the remainder).
C4_ColumnIndependent ==
    \A t \in Threads :
        LET c == call[t]
        IN (/\ c.pc = "done" /\ c.multi_eval
            /\ saved.set /\ saved.multi /\ saved.zc = c.zero_copy)
           => \A j \in Columns(c) : SameColumn(c, j) => OutColumn(c, j) = saved.col

\* A point evaluated in the remainder of a buffered batch call with another
\* point count, after it was remembered from a full simd block of more than
\* one lane.
C4_Witness ==
    \E t \in Threads :
        /\ call[t].pc = "done" /\ call[t].multi_eval /\ ~call[t].zero_copy
        /\ saved.set /\ saved.multi /\ ~saved.zc /\ saved.blk
        /\ ev.simd_size > 1 /\ nevals(call[t]) # saved.n
        /\ \E j \in Columns(call[t]) : SameColumn(call[t], j) /\ ~InBlock(call[t], j)

\* C5: a call gives, for a column, the outputs that the call of the same
\* mode, path and point count gave for the same values in that column,
\* whatever calls were made on the evaluator before and between the two.
C5_Idempotent ==
    \A t \in Threads :
        LET c == call[t]
        IN (/\ c.pc = "done" /\ saved.set
            /\ saved.multi = c.multi_eval /\ saved.zc = c.zero_copy
            /\ saved.n = nevals(c) /\ SameColumn(c, saved.j))
           => OutColumn(c, saved.j) = saved.col

\* A buffered batch call of one point repeated, the scratch buffers holding
\* at its start what a call evaluating another point left there.
C5_Witness ==
    \E t \in Threads :
        /\ call[t].pc = "done" /\ call[t].multi_eval /\ ~call[t].zero_copy
        /\ saved.set /\ saved.multi /\ ~saved.zc
        /\ saved.n = nevals(call[t]) /\ SameColumn(call[t], saved.j)
        /\ ev.simd_size > 1 /\ nevals(call[t]) = 1
        /\ \E s \in DOMAIN buf[call[t].inst].in : \E v \in 0..(ev.nvars - 1) :
              buf[call[t].inst].in[s].v = InAtom(v, 2)

\* The arrays evaluate() works on: inputs, outputs, and pars and time when
\* they were passed.
Supplied(c) == {a \in {c.inputs, c.outputs, c.pars, c.time} : a.present}

\* The elements of a follow each other in memory without gaps, row after
\* row.
Dense(a) ==
    \A i \in 0..(a.sh0 - 1) : \A j \in 0..(a.sh1 - 1) :
        ElemAddr(a, i, j) = a.base + i * a.sh1 + j

\* The memory bounds of a and b do not meet.
Apart(a, b) == Size(a) = 0 \/ Size(b) = 0 \/ Hi(a) < Lo(b) \/ Hi(b) < Lo(a)

\* The cells a kernel invocation on the caller's memory reaches through a
\* pointer to `rows` rows: `lanes` cells per row, the rows `stride` apart.
Reach(ptr, rows, iv) ==
    LET lanes == IF iv.fn = "fptr_batch_s" THEN ev.simd_size ELSE 1
    IN IF ptr = NullPtr THEN {}
       ELSE {ptr + i * iv.stride + l : i \in 0..(rows - 1), l \in 0..(lanes - 1)}

\* What the invocation reads is apart from what it writes.
ReadsApartFromWrites(iv) ==
    (Reach(iv.in, ev.nvars, iv) \cup Reach(iv.par, ev.nparams, iv)
        \cup Reach(iv.time, 1, iv)) \cap Reach(iv.out, ev.nouts, iv) = {}

\* C6: a call takes the zero-copy path only if all its arrays are dense in
\* C order and the memory bounds of no two of them meet; a call for which
\* this fails runs the kernels on the scratch buffers only, so a kernel
\* never reads caller memory that it writes.
C6_ZeroCopyOnlyWhenSafe ==
    \A t \in Threads :
        LET c == call[t]
            safe == /\ \A a \in Supplied(c) : Dense(a)
                    /\ \A a \in Supplied(c) : \A b \in Supplied(c) \ {a} : Apart(a, b)
        IN (Passed(c) /\ c.pc # "decide") =>
              /\ c.zero_copy => safe
              /\ \A k \in DOMAIN c.klog :
                    /\ c.klog[k].space = "caller" <=> c.zero_copy
                    /\ c.klog[k].space = "caller" => ReadsApartFromWrites(c.klog[k])
              /\ (~safe /\ c.pc = "done") =>
                    /\ c.klog # <<>>
                    /\ \A k \in DOMAIN c.klog : c.klog[k].space = "scratch"

\* A batch call whose dense outputs array lies on top of the inputs
\* completed on the buffered path.
C6_Witness ==
    \E t \in Threads :
        LET c == call[t]
        IN /\ c.pc = "done" /\ c.multi_eval /\ ~c.zero_copy
           /\ \A a \in Supplied(c) : Dense(a)
           /\ ~Apart(c.inputs, c.outputs)
           /\ c.klog # <<>>
           /\ \A k \in DOMAIN c.klog : c.klog[k].space = "scratch"

\* C11: a call whose time is of the wrong kind for its mode (an iterable
\* with 1-D inputs, a scalar with 2-D inputs of any number of columns, one
\* column included) never passes validation.
C11_TimeKindMatchesMode ==
    \A t \in Threads :
        LET c == call[t]
        IN (Called(c) /\ (\/ c.arg.in.ndim = 1 /\ c.arg.tkind = "iter"
                          \/ c.arg.in.ndim = 2 /\ c.arg.tkind = "scalar"))
           => ~Passed(c)

(***************************************************************************)
(* Construction of the evaluator (the factory lambda, l.93-231).  In the   *)
(* specifications above the evaluator exists from the start; here ev       *)
(* starts as the request the factory receives and carries, besides the     *)
(* metadata, the state of the build:                                       *)
(*   batch_size : the width asked for (0: none given)                      *)
(*   rec        : hey::recommended_simd_size<T>() on this machine          *)
(*   phase      : "new", "compiling" (inside parallel_invoke), "ready"     *)
(*                (the evaluation lambda exists) or "error"                *)
(*   s_scal, s_batch : the two llvm_state objects: "new", "added",         *)
(*                "compiled"                                               *)
(*   fptr_*     : the four kernel pointers: NoPtr, or the llvm_state and   *)
(*                the symbol the pointer was looked up in                  *)
(***************************************************************************)
NoPtr == <<>>

\* Element types of the build: double, long double and mppp::real.
BuildTypes == {"dbl", "ldbl", "real"}

BuildRequests ==
    {rq \in [T : BuildTypes, nvars : {0, MaxVars}, nouts : {MaxOuts},
             nparams : {0, MaxPars}, is_time_dependent : BOOLEAN,
             simd_size : {0}, prec : {0, MaxPrec},
             batch_size : 0..MaxW, rec : 1..MaxW,
             phase : {"new"}, err : {"none"},
             s_scal : {"new"}, s_batch : {"new"},
             fptr_scal : {NoPtr}, fptr_scal_s : {NoPtr},
             fptr_batch : {NoPtr}, fptr_batch_s : {NoPtr}] :
        rq.prec = (IF rq.T = "real" THEN MaxPrec ELSE 0)}

InitBuild ==
    /\ ev \in BuildRequests
    /\ buf = [i \in Insts |-> ScratchInit(ev)]
    /\ call = [t \in Threads |-> IdleCall(1)]
    /\ saved = NoSaved

\* Resolve without the test of the width.
Resolve_NoCheck ==
    LET w == IF ev.batch_size > 0 THEN ev.batch_size ELSE ev.rec
    IN /\ ev.phase = "new"
       /\ ev' = [ev EXCEPT !.simd_size = w, !.phase = "compiling"]
       /\ UNCHANGED <<buf, call, saved>>

\* l.96-102: the SIMD size is the batch size given or the recommended one;
\* sizes above 1 are refused for every type but double.
Resolve ==
    LET w == IF ev.batch_size > 0 THEN ev.batch_size ELSE ev.rec
    IN /\ ev.phase = "new"
       /\ ev' = IF ev.T # "dbl" /\ w > 1
                THEN [ev EXCEPT !.simd_size = w, !.phase = "error",
                                !.err = "UnsupportedBatchWidth"]
                ELSE [ev EXCEPT !.simd_size = w, !.phase = "compiling"]
       /\ UNCHANGED <<buf, call, saved>>

\* l.119-135: the first task of parallel_invoke, one statement at a time:
\* add_cfunc into s_scal, s_scal.compile(), the two lookups.
ScalarTask ==
    /\ ev.phase = "compiling"
    /\ ev.fptr_scal_s = NoPtr
    /\ ev' = IF ev.s_scal = "new" THEN [ev EXCEPT !.s_scal = "added"]
             ELSE IF ev.s_scal = "added" THEN [ev EXCEPT !.s_scal = "compiled"]
             ELSE IF ev.fptr_scal = NoPtr
                  THEN [ev EXCEPT !.fptr_scal = <<"s_scal", "cfunc">>]
             ELSE [ev EXCEPT !.fptr_scal_s = <<"s_scal", "cfunc.strided">>]
    /\ UNCHANGED <<buf, call, saved>>

\* l.136-152: the second task: add_cfunc with the batch size into s_batch,
\* s_batch.compile(), the two lookups.
BatchTask ==
    /\ ev.phase = "compiling"
    /\ ev.fptr_batch_s = NoPtr
    /\ ev' = IF ev.s_batch = "new" THEN [ev EXCEPT !.s_batch = "added"]
             ELSE IF ev.s_batch = "added" THEN [ev EXCEPT !.s_batch = "compiled"]
             ELSE IF ev.fptr_batch = NoPtr
                  THEN [ev EXCEPT !.fptr_batch = <<"s_batch", "cfunc">>]
             ELSE [ev EXCEPT !.fptr_batch_s = <<"s_batch", "cfunc.strided">>]
    /\ UNCHANGED <<buf, call, saved>>

\* Both tasks of parallel_invoke have run to their end.
TasksDone == ev.fptr_scal_s # NoPtr /\ ev.fptr_batch_s # NoPtr

\* Construct without waiting for the two tasks.
Construct_NoJoin ==
    /\ ev.phase = "compiling"
    /\ ev' = [ev EXCEPT !.phase = "ready"]
    /\ buf' = [i \in Insts |-> ScratchInit(ev)]
    /\ UNCHANGED <<call, saved>>

\* l.118-231: parallel_invoke returns when both tasks have, then the
\* metadata is cached, the scratch buffers are made and the evaluation
\* lambda is created with them and the four pointers.
Construct ==
    /\ ev.phase = "compiling"
    /\ TasksDone
    /\ ev' = [ev EXCEPT !.phase = "ready"]
    /\ buf' = [i \in Insts |-> ScratchInit(ev)]
    /\ UNCHANGED <<call, saved>>

\* Valid calls, contiguous and with strided inputs.
BuildArgs ==
    {Packed(vp.in, vp.out, vp.pars, vp.time, vp.tkind, <<>>, GoodPrecs) :
        vp \in {ValidPlans(n, FALSE, sd) : n \in {-1, MaxN}, sd \in {"none", "in"}}}

\* The evaluation lambda can be called once it exists.
CallBuild(t) ==
    /\ ev.phase = "ready"
    /\ call[t].pc = "idle"
    /\ \E arg \in BuildArgs : Call(t, arg)

NextBuild ==
    \/ Resolve \/ ScalarTask \/ BatchTask \/ Construct
    \/ (\E t \in Threads : CallBuild(t))
    \/ Step
SpecBuild == InitBuild /\ [][NextBuild]_vars

\* C12: a build whose resolved width (the one asked for, or the recommended
\* one when none is given) is above 1 for a type other than double ends
\* with UnsupportedBatchWidth with nothing compiled and no kernel pointer
\* set, and for no other build; an evaluator of a type other than double
\* that compiles or exists has width 1.
C12_WidthOnlyForDouble ==
    LET w == IF ev.batch_size > 0 THEN ev.batch_size ELSE ev.rec
        bad == ev.T # "dbl" /\ w > 1
    IN /\ ev.phase # "new" => ev.simd_size = w
       /\ (ev.phase # "new" /\ bad) =>
             /\ ev.phase = "error" /\ ev.err = "UnsupportedBatchWidth"
             /\ ev.s_scal = "new" /\ ev.s_batch = "new"
             /\ ev.fptr_scal = NoPtr /\ ev.fptr_scal_s = NoPtr
             /\ ev.fptr_batch = NoPtr /\ ev.fptr_batch_s = NoPtr
       /\ ev.phase = "error" => bad
       /\ (ev.phase \in {"compiling", "ready"} /\ ev.T # "dbl") => ev.simd_size = 1
       /\ \A t \in Threads : Called(call[t]) => (ev.T = "dbl" \/ ev.simd_size = 1)

\* The build of a long double evaluator with batch size MaxW was refused.
C12_Witness ==
    /\ ev.phase = "error" /\ ev.err = "UnsupportedBatchWidth"
    /\ ev.T = "ldbl" /\ ev.batch_size = MaxW /\ ev.rec = 1


\* The state the scalar task writes, and the state the batch task writes.
ScalarState == <<ev.s_scal, ev.fptr_scal, ev.fptr_scal_s>>
BatchState == <<ev.s_batch, ev.fptr_batch, ev.fptr_batch_s>>

\* C19: under every interleaving of the two compile tasks, each kernel
\* pointer is null or was looked up under its own name in the compiled
\* state of its own task (scalar, strided scalar: s_scal; batch, strided
\* batch: s_batch), nothing is compiled before the fork or after a refused
\* build, and the evaluator exists, and a call runs or invokes a kernel,
\* only when both tasks have finished with all four pointers set.
C19_ForkJoinCompile ==
    /\ ev.fptr_scal \in {NoPtr, <<"s_scal", "cfunc">>}
    /\ ev.fptr_scal_s \in {NoPtr, <<"s_scal", "cfunc.strided">>}
    /\ ev.fptr_batch \in {NoPtr, <<"s_batch", "cfunc">>}
    /\ ev.fptr_batch_s \in {NoPtr, <<"s_batch", "cfunc.strided">>}
    /\ (ev.fptr_scal # NoPtr \/ ev.fptr_scal_s # NoPtr) => ev.s_scal = "compiled"
    /\ (ev.fptr_batch # NoPtr \/ ev.fptr_batch_s # NoPtr) => ev.s_batch = "compiled"
    /\ ev.phase \in {"new", "error"} =>
          /\ ScalarState = <<"new", NoPtr, NoPtr>>
          /\ BatchState = <<"new", NoPtr, NoPtr>>
    /\ ev.phase = "ready" =>
          /\ TasksDone
          /\ ev.fptr_scal # NoPtr /\ ev.fptr_batch # NoPtr
    /\ \A t \in Threads :
          /\ call[t].pc # "idle" => ev.phase = "ready"
          /\ \A i \in 1..Len(call[t].klog) : ev[call[t].klog[i].fn] # NoPtr

\* An evaluator built by the two tasks has invoked a kernel.
C19_Witness ==
    /\ ev.phase = "ready"
    /\ \E t \in Threads : call[t].klog # <<>>


\* C13: when a call has succeeded, the array it returns is the caller's
\* output buffer if one was passed, with every slot of that buffer
\* overwritten by a kernel result that does not depend on the slot's prior
\* content; otherwise it is a new dense array of shape (nouts,) for 1-D
\* inputs and (nouts, N) for 2-D inputs.
C13_OutputsInPlace ==
    \A t \in Threads :
        LET c == call[t]
        IN c.pc = "done" =>
              IF c.arg.out.present
              THEN /\ c.outputs = c.arg.out
                   /\ \A x \in Elems(c.arg.out) :
                         /\ c.mem[x].v # Poison
                         /\ \A i \in 1..Len(c.mem[x].v) : c.mem[x].v[i] # Poison[1]
              ELSE /\ c.outputs = FreshArr(FreshOut, c.arg.in.ndim, ev.nouts, c.arg.in.sh1)
                   /\ Elems(c.outputs) \cap
                         (Span(c.arg.in) \cup Span(c.arg.pars) \cup Span(c.arg.time)) = {}


\* A buffer the caller passed holds values, and they are not at the working
\* precision.
WrongPrec(a) ==
    \/ Size(a.in) > 0 /\ a.inP # ev.prec
    \/ Size(a.pars) > 0 /\ a.parP # ev.prec
    \/ (a.tkind = "scalar" \/ Size(a.time) > 0) /\ a.timeP # ev.prec

\* C15: for mppp::real, a call whose inputs, pars or time hold values of a
\* precision other than prec never passes validation and invokes no kernel,
\* and fails with PrecisionMismatch when nothing else is wrong with it;
\* PrecisionMismatch is raised for no other call; and the values of the
\* inputs, pars and time, in the caller's buffers and in the arrays the call
\* works on, keep the precision the caller gave them.
C15_PrecisionChecked ==
    \A t \in Threads :
        LET c == call[t]
            a == c.arg
        IN (ev.T = "real" /\ Called(c)) =>
             /\ WrongPrec(a) => (~Passed(c) /\ c.klog = <<>>)
             /\ FailedOnly(c, "PrecisionMismatch") => c.err = "PrecisionMismatch"
             /\ c.err = "PrecisionMismatch" => WrongPrec(a)
             /\ \A x \in Elems(a.in) \cup Elems(a.pars) \cup Elems(a.time) :
                   c.mem[x] = InitMem(a)[x]
             /\ \A x \in Elems(c.inputs) : c.mem[x].p = a.inP
             /\ \A x \in Elems(c.pars) : c.mem[x].p = a.parP
             /\ \A x \in Elems(c.time) : c.mem[x].p = a.timeP

\* A batch call whose time array alone holds values of another precision
\* failed with PrecisionMismatch, the time values as they were.
C15_Witness ==
    \E t \in Threads :
        LET c == call[t]
        IN /\ ev.T = "real"
           /\ FailedOnly(c, "PrecisionMismatch") /\ c.err = "PrecisionMismatch"
           /\ c.arg.tkind = "iter" /\ c.arg.timeP # ev.prec
           /\ c.arg.inP = ev.prec /\ c.arg.parP = ev.prec
           /\ \A x \in Elems(c.arg.time) : c.mem[x].p = c.arg.timeP


\* The i-th invocation (i = 1, 2, ...) a zero-copy batch call of N points
\* makes with simd size W: the first N div W are of the strided batch
\* kernel, block by block, the others of the strided scalar kernel, point
\* by point; a pointer is the start of its array plus the offset, or null
\* for a role the function does not read.
ZcPlan(c, i) ==
    LET N   == c.inputs.sh1
        W   == ev.simd_size
        B   == N \div W
        off == IF i <= B THEN (i - 1) * W ELSE B * W + (i - B - 1)
    IN [fn     |-> IF i <= B THEN "fptr_batch_s" ELSE "fptr_scal_s",
        space  |-> "caller",
        out    |-> c.outputs.base + off,
        in     |-> IF ev.nvars > 0 THEN c.inputs.base + off ELSE NullPtr,
        par    |-> IF ev.nparams > 0 THEN c.pars.base + off ELSE NullPtr,
        time   |-> IF ev.is_time_dependent THEN c.time.base + off ELSE NullPtr,
        stride |-> N]

\* The points the invocation iv of call c covers.
ZcPoints(c, iv) ==
    LET first == iv.out - c.outputs.base
    IN first..(first + (IF iv.fn = "fptr_batch_s" THEN ev.simd_size ELSE 1) - 1)

\* C16: a zero-copy batch call of N points invokes, in this order, the
\* strided batch kernel N div W times, the k-th time with the pointers k*W
\* elements into their arrays, and the strided scalar kernel N mod W times,
\* for the points (N div W)*W, ..., N-1, always with stride N; when the call
\* completes every point 0..N-1 is covered by exactly one invocation, and
\* with N = 0 there is none.
C16_ZeroCopyBlocks ==
    \A t \in Threads :
        LET c == call[t]
            N == c.inputs.sh1
            W == ev.simd_size
        IN (c.multi_eval /\ c.zero_copy /\ c.pc \in {"zc_block", "zc_rem", "done"}) =>
             /\ Len(c.klog) <= (N \div W) + (N % W)
             /\ \A i \in 1..Len(c.klog) : c.klog[i] = ZcPlan(c, i)
             /\ c.pc = "zc_block" => Len(c.klog) < N \div W
             /\ c.pc = "zc_rem" => Len(c.klog) >= N \div W
             /\ c.pc = "done" =>
                   /\ Len(c.klog) = (N \div W) + (N % W)
                   /\ \A p \in 0..(N - 1) :
                         Cardinality({i \in 1..Len(c.klog) : p \in ZcPoints(c, c.klog[i])}) = 1
                   /\ \A i \in 1..Len(c.klog) : ZcPoints(c, c.klog[i]) \subseteq 0..(N - 1)

\* A zero-copy batch call with full blocks of more than one point and a
\* remainder completed, for a time-dependent function with variables and
\* parameters.
C16_Witness ==
    \E t \in Threads :
        LET c == call[t]
        IN /\ c.pc = "done" /\ c.multi_eval /\ c.zero_copy
           /\ ev.simd_size > 1
           /\ c.inputs.sh1 \div ev.simd_size >= 1
           /\ c.inputs.sh1 % ev.simd_size # 0
           /\ ev.nvars > 0 /\ ev.nparams > 0 /\ ev.is_time_dependent


HoldsPoints(c, lanes, col0) ==
    LET b == buf[c.inst]
    IN /\ \A v \in 0..(ev.nvars - 1) : \A i \in 0..(lanes - 1) :
             b.in[v * lanes + i] = c.mem[ElemAddr(c.inputs, v, col0 + i)]
       /\ c.pars.present =>
             \A q \in 0..(ev.nparams - 1) : \A i \in 0..(lanes - 1) :
                 b.pars[q * lanes + i] = c.mem[ElemAddr(c.pars, q, col0 + i)]
       /\ c.time.present =>
             \A i \in 0..(lanes - 1) : b.time[i] = c.mem[ElemAddr(c.time, col0 + i, 0)]

\* The step of call old to call new set the outputs of the points col0,
\* col0 + 1, ... from the scratch output slots, in the layout of `lanes`
\* points per row, and changed no other cell.
SetsPoints(old, new, lanes, col0) ==
    LET b == buf[old.inst]
        dst == {ElemAddr(old.outputs, o, col0 + j) :
                    o \in 0..(ev.nouts - 1), j \in 0..(lanes - 1)}
    IN /\ \A o \in 0..(ev.nouts - 1) : \A j \in 0..(lanes - 1) :
             new.mem[ElemAddr(old.outputs, o, col0 + j)] = b.out[o * lanes + j]
       /\ \A x \in DOMAIN old.mem \ dst : new.mem[x] = old.mem[x]

\* C17: in a buffered batch call, when the batch kernel is invoked for
\* block k the scratch slot v*W + i holds input (v, k*W + i), likewise the
\* parameters, and time slot i the time k*W + i; the scatter that follows
\* sets output (o, k*W + j) from scratch output slot o*W + j.  When the
\* scalar kernel is invoked for a remainder point p, (N div W)*W <= p < N,
\* slot v holds input (v, p) and the scatter sets output (o, p) from slot
\* o.  A scatter writes no other cell, and the gathers and the kernels
\* write no cell of the caller.
C17_BufferedSlots ==
    /\ [](\A t \in Threads :
            LET c == call[t]
                W == ev.simd_size
            IN /\ c.pc \in {"buf_kernel", "buf_scatter"} =>
                     (c.k < nevals(c) \div W /\ (c.pc = "buf_kernel" => HoldsPoints(c, W, c.k * W)))
               /\ c.pc \in {"rem_kernel", "rem_scatter"} =>
                     /\ (nevals(c) \div W) * W <= c.k /\ c.k < nevals(c)
                     /\ c.pc = "rem_kernel" => HoldsPoints(c, 1, c.k))
    /\ [][\A t \in Threads :
            LET c == call[t]
                W == ev.simd_size
            IN /\ c.pc = "buf_scatter" => SetsPoints(c, call'[t], W, c.k * W)
               /\ c.pc = "rem_scatter" => SetsPoints(c, call'[t], 1, c.k)
               /\ c.pc \in {"buf_gather", "buf_kernel", "rem_gather", "rem_kernel"}
                     => call'[t].mem = c.mem]_vars

\* The batch kernel is about to run on a block of more than one point, in a
\* call with a remainder, of a function with variables, parameters and time.
C17_Witness ==
    \E t \in Threads :
        /\ call[t].pc = "buf_kernel"
        /\ ev.simd_size > 1 /\ nevals(call[t]) % ev.simd_size # 0
        /\ ev.nvars > 0 /\ ev.nparams > 0 /\ ev.is_time_dependent


\* The value of output o of the function at the inputs, parameters and time
\* the caller passed for column j.
ValueAt(arg, o, j) ==
    LET col == ArgColumn(arg, j)
    IN <<5, o>> \o Cat(col[1], ev.nvars) \o Cat(col[2], ev.nparams) \o col[3]

\* C20: when a valid batch call completes, on the zero-copy or on the
\* buffered path, every output slot (o, p) holds the value of output o of
\* the function at the inputs, parameters and time of point p; so a column
\* is the one a batch call on the other path gave for the same values.
C20_BatchPathsAgree ==
    \A t \in Threads :
        LET c == call[t]
        IN (c.pc = "done" /\ c.multi_eval) =>
             /\ \A p \in Columns(c) : \A o \in 0..(ev.nouts - 1) :
                   c.mem[ElemAddr(c.outputs, o, p)].v = ValueAt(c.arg, o, p)
             /\ (saved.set /\ saved.multi /\ saved.zc # c.zero_copy) =>
                   \A p \in Columns(c) : SameColumn(c, p) => OutColumn(c, p) = saved.col

\* A buffered batch call with a full block of more than one point and a
\* remainder completed after a column of the same values was remembered
\* from a zero-copy batch call.
C20_Witness ==
    \E t \in Threads :
        LET c == call[t]
        IN /\ c.pc = "done" /\ c.multi_eval /\ ~c.zero_copy
           /\ saved.set /\ saved.multi /\ saved.zc
           /\ \E p \in Columns(c) : SameColumn(c, p)
           /\ ev.simd_size > 1 /\ nevals(c) % ev.simd_size # 0 /\ nevals(c) > ev.simd_size
           /\ ev.nvars > 0 /\ ev.nparams > 0 /\ ev.is_time_dependent


(***************************************************************************)
(* Calls from two threads, on one evaluator or on two.  The evaluation     *)
(* lambda is called by the Python interpreter and runs with the global     *)
(* interpreter lock held: the only release of the lock in the file is the  *)
(* gil_scoped_release of the factory, around the compilation (l.115-116).  *)
(* Another thread can therefore run only while the thread in the lambda is *)
(* inside a call into the interpreter: the conversion of the arguments and *)
(* astype (l.237-270), may_share_memory (l.498-504), and the return or the *)
(* exception.  The checks, the gathers, the kernels and the scatters are   *)
(* native code between these calls.                                        *)
(***************************************************************************)
ConcThreads == {1, 2}
ConcInsts == {1, 2}

\* The labels at which the thread of a call may have lost the lock.
YieldLabels == {"idle", "check_args", "decide", "done", "error"}

\* HasGil when nothing serialises the threads.
HasGil_Released(t) == TRUE

\* Thread t can take a step: every other thread stands where it may have
\* given up the lock.
HasGil(t) == \A u \in ConcThreads \ {t} : call[u].pc \in YieldLabels

\* Evaluators of a function with variables, of either type and simd size.
ConcConfigs ==
    {cf \in Configs : cf.nvars = MaxVars /\ cf.nparams = 0 /\ ~cf.is_time_dependent}

\* Each thread calls one evaluator throughout: the same one or another one
\* built for the same function.
InitConc ==
    /\ ev \in ConcConfigs
    /\ buf = [i \in ConcInsts |-> ScratchInit(ev)]
    /\ call \in [ConcThreads -> {IdleCall(i) : i \in ConcInsts}]
    /\ saved = NoSaved

\* The valid calls of thread t, contiguous and with strided inputs, single
\* and batch: every column holds the logical point t.
ConcArgs(t) ==
    UNION { { Packed(vp.in, vp.out, vp.pars, vp.time, vp.tkind,
                     [j \in 0..((IF n < 0 THEN 1 ELSE n) - 1) |-> t], GoodPrecs) :
                vp \in {ValidPlans(n, FALSE, sd) : sd \in {"none", "in"}} } :
            n \in {-1, MaxN} }

CallConc(t) == call[t].pc = "idle" /\ \E arg \in ConcArgs(t) : Call(t, arg)

NextConc ==
    \E t \in ConcThreads :
        \/ HasGil(t) /\ CallConc(t)
        \/ HasGil(t) /\ CheckArgs(t)
        \/ HasGil(t) /\ PrepOutputs(t)
        \/ HasGil(t) /\ RealCheck(t)
        \/ HasGil(t) /\ CheckPars(t)
        \/ HasGil(t) /\ CheckTime(t)
        \/ HasGil(t) /\ Decide(t)
        \/ HasGil(t) /\ ZcBlock(t)
        \/ HasGil(t) /\ ZcRem(t)
        \/ HasGil(t) /\ SglZc(t)
        \/ HasGil(t) /\ BufGather(t)
        \/ HasGil(t) /\ BufKernel(t)
        \/ HasGil(t) /\ BufScatter(t)
        \/ HasGil(t) /\ RemGather(t)
        \/ HasGil(t) /\ RemKernel(t)
        \/ HasGil(t) /\ RemScatter(t)
        \/ HasGil(t) /\ SglGather(t)
        \/ HasGil(t) /\ SglKernel(t)
        \/ HasGil(t) /\ SglScatter(t)
        \/ HasGil(t) /\ Return(t)
SpecConc == InitConc /\ [][NextConc]_vars


\* The labels of the dispatch: from the branch taken to the last scatter.
DispatchLabels ==
    {"zc_block", "zc_rem", "sgl_zc", "buf_gather", "buf_kernel", "buf_scatter",
     "rem_gather", "rem_kernel", "rem_scatter", "sgl_gather", "sgl_kernel", "sgl_scatter"}

\* The scratch output slots of call c hold, in the layout of `lanes` points
\* per row, the values of the function at the points col0, col0 + 1, ... of
\* the call.
HoldsResults(c, lanes, col0) ==
    \A o \in 0..(ev.nouts - 1) : \A j \in 0..(lanes - 1) :
        buf[c.inst].out[o * lanes + j].v = ValueAt(c.arg, o, col0 + j)

\* The step a thread whose call stands at the zero-copy decision takes next.
Proceed(t) == HasGil(t) /\ Decide(t)

StepLanes(c) == IF c.pc \in {"buf_gather", "buf_kernel", "buf_scatter"}
                THEN ev.simd_size ELSE 1
StepCol0(c) == IF c.pc \in {"buf_gather", "buf_kernel", "buf_scatter"}
               THEN c.k * ev.simd_size
               ELSE IF c.pc \in {"rem_gather", "rem_kernel", "rem_scatter"} THEN c.k
               ELSE 0

\* The scratch indices i * lanes + j of the copy loops and of the dense
\* kernels, for i < rows and j < lanes.
ScratchSlots(rows, lanes) ==
    {i * lanes + j : i \in 0..(rows - 1), j \in 0..(lanes - 1)}

\* The indices (i, col0 + j) at which the copy loops access an array of the
\* caller, for i < rows and j < lanes.
CallerIdx(rows, lanes, col0) ==
    {<<i, col0 + j>> : i \in 0..(rows - 1), j \in 0..(lanes - 1)}

\* The index is one of array a (a 1-D array has its index in the first
\* place and one column).
InShape(a, ij) == ij[1] >= 0 /\ ij[1] < a.sh0 /\ ij[2] >= 0 /\ ij[2] < a.sh1

\* The cells of caller memory at ptr that a logged kernel invocation
\* touches for a role of `rows` rows lie in the dense array a.
ReachInside(ptr, rows, iv, a) ==
    \A x \in Reach(ptr, rows, iv) : a.present /\ a.base <= x /\ x < a.base + a.sh0 * a.sh1

\* C21: the scratch buffers always have the lengths nvars*W, nouts*W,
\* nparams*W and W they were given at construction; every index at which a
\* gather, a kernel on the scratch buffers or a scatter accesses a scratch
\* buffer is below that length, and every index at which a gather or a
\* scatter accesses an array of the caller is inside the array's shape; in
\* the zero-copy paths every cell a kernel touches through a pointer (block
\* offset k*W + j or remainder offset p, rows stride N apart) lies among
\* the nvars*N, nouts*N, nparams*N and N elements of its array.
C21_IndicesInBounds ==
    \A t \in Threads :
        LET c == call[t]
            b == buf[c.inst]
            W == ev.simd_size
            L == StepLanes(c)
            c0 == StepCol0(c)
        IN /\ DOMAIN b.in = 0..(ev.nvars * W - 1)
           /\ DOMAIN b.out = 0..(ev.nouts * W - 1)
           /\ DOMAIN b.pars = 0..(ev.nparams * W - 1)
           /\ DOMAIN b.time = 0..(W - 1)
           /\ c.pc \in {"buf_gather", "rem_gather", "sgl_gather"} =>
                 /\ ScratchSlots(ev.nvars, L) \subseteq DOMAIN b.in
                 /\ \A ij \in CallerIdx(ev.nvars, L, c0) : InShape(c.inputs, ij)
                 /\ c.pars.present =>
                       /\ ScratchSlots(ev.nparams, L) \subseteq DOMAIN b.pars
                       /\ \A ij \in CallerIdx(ev.nparams, L, c0) : InShape(c.pars, ij)
                 /\ c.time.present =>
                       /\ ScratchSlots(1, L) \subseteq DOMAIN b.time
                       /\ \A j \in 0..(L - 1) : c0 + j < c.time.sh0
           /\ c.pc \in {"buf_kernel", "rem_kernel", "sgl_kernel"} =>
                 /\ ScratchSlots(ev.nvars, L) \subseteq DOMAIN b.in
                 /\ ScratchSlots(ev.nouts, L) \subseteq DOMAIN b.out
                 /\ ScratchSlots(ev.nparams, L) \subseteq DOMAIN b.pars
                 /\ ScratchSlots(1, L) \subseteq DOMAIN b.time
           /\ c.pc \in {"buf_scatter", "rem_scatter", "sgl_scatter"} =>
                 /\ ScratchSlots(ev.nouts, L) \subseteq DOMAIN b.out
                 /\ \A ij \in CallerIdx(ev.nouts, L, c0) : InShape(c.outputs, ij)
           /\ \A i \in DOMAIN c.klog :
                 LET iv == c.klog[i]
                 IN iv.space = "caller" =>
                       /\ ReachInside(iv.out, ev.nouts, iv, c.outputs)
                       /\ ReachInside(iv.in, ev.nvars, iv, c.inputs)
                       /\ ReachInside(iv.par, ev.nparams, iv, c.pars)
                       /\ ReachInside(iv.time, IF ev.is_time_dependent THEN 1 ELSE 0,
                                      iv, c.time)

\* The scatter of a simd block of more than one point is about to run, in a
\* batch call with a remainder, of a function with variables and
\* parameters.
C21_Witness ==
    \E t \in Threads :
        /\ call[t].pc = "buf_scatter"
        /\ ev.simd_size > 1 /\ nevals(call[t]) % ev.simd_size # 0
        /\ ev.nvars > 0 /\ ev.nparams > 0


\* C22: when a buffered batch call with an output buffer of the caller
\* completes, every output slot (o, p) holds the value of the function at
\* the inputs, parameters and time the caller passed for point p, also when
\* the output buffer overlaps the inputs, the parameters or the time at
\* whatever offset: the value a call with an output buffer apart from them
\* gives.
C22_OverlapHarmless ==
    \A t \in Threads :
        LET c == call[t]
        IN (c.pc = "done" /\ c.multi_eval /\ ~c.zero_copy /\ c.arg.out.present) =>
              \A p \in Columns(c) : \A o \in 0..(ev.nouts - 1) :
                  c.mem[ElemAddr(c.outputs, o, p)].v = ValueAt(c.arg, o, p)

====
